---- MODULE Spec2Model ----
(***************************************************************************)
(* crates_llms_txt: rustdoc JSON is fetched (docs.rs / URL) or generated   *)
(* (cargo doc), decompressed, parsed and flattened by process_docs into    *)
(* sessions / full_sessions; NAPI bindings wrap the entry points.          *)
(*                                                                         *)
(* Encoding conventions                                                    *)
(*   Option<T>      : <<>> is None, <<x>> is Some(x)                       *)
(*   Result<T>      : [tag |-> "Ok", val |-> x], [tag |-> "Err", kind, msg]*)
(*   a panic        : [tag |-> "panic"] (unwinds through every caller)     *)
(*   format!(a/b/c) : the sequence of the "/"-separated segments           *)
(*   HashMap<Id,_>  : a function on a finite set of ids; its iteration     *)
(*                    order is an arbitrary enumeration of the keys        *)
(***************************************************************************)
EXTENDS Integers, Sequences, FiniteSets, TLC

\* ------------------------------------------------------------------ bounds
\* most items in the index of a crate handed to process_docs directly
MaxItems == 3
\* most items in the index of a crate served to / generated for an entry point
MaxFetchedItems == 1

\* ------------------------------------------------------------ Option/Result
None == <<>>
Some(x) == <<x>>
IsSome(o) == o # <<>>
Unwrap(o) == o[1]
UnwrapOr(o, d) == IF o = <<>> THEN d ELSE o[1]

Ok(v) == [tag |-> "Ok", val |-> v]
Err(k, m) == [tag |-> "Err", kind |-> k, msg |-> m]
Panic == [tag |-> "panic"]

\* --------------------------------------------------------------- constants
DOCS_BASE_URL == <<"https://docs.rs", "crate">>

\* ------------------------------------------------------- rustdoc data model
Visibilities == {"Public", "Default", "Crate", "Restricted"}

\* a PathBuf: its bytes are valid UTF-8 or not
Utf8Path(s) == [utf8 |-> TRUE, s |-> s]
NonUtf8Path == [utf8 |-> FALSE, s |-> "\\xff.rs"]
\* Path::to_str
to_str(p) == IF p.utf8 THEN Some(p.s) ELSE None

Span(p) == [filename |-> p]

\* temp_trait::Item, the fields process_docs and from_url read
Item(name, span, visibility, docs) ==
  [name |-> name, span |-> span, visibility |-> visibility, docs |-> docs]

\* The items the model draws index entries from: every visibility, with and
\* without docs, name and span, two source files, and a non-UTF-8 file name.
ItemPool ==
  { Item(Some("parse"), Some(Span(Utf8Path("src/a.rs"))), "Public", Some("doc-1")),
    Item(None,          Some(Span(Utf8Path("src/a.rs"))), "Public", Some("doc-2")),
    Item(Some("run"),   Some(Span(Utf8Path("src/b.rs"))), "Public", Some("doc-1")),
    Item(Some("mac"),   None,                             "Public", Some("doc-3")),
    Item(Some("raw"),   Some(Span(NonUtf8Path)),          "Public", Some("doc-3")),
    Item(Some("gen"),   None,                             "Public", None),
    Item(Some("priv"),  None,                             "Default", Some("doc-4")),
    Item(Some("inner"), Some(Span(Utf8Path("src/a.rs"))), "Crate", Some("doc-4")),
    Item(Some("sup"),   Some(Span(Utf8Path("src/b.rs"))), "Restricted", Some("doc-4")),
    Item(None,          Some(Span(Utf8Path("src/b.rs"))), "Default", None) }

Indexes(n) == UNION { [S -> ItemPool] : S \in SUBSET (1..n) }

CrateVersions == {None, Some("2.0.0")}

\* the ids a crate names as its root: 1 may be a key of the index, 2 is a key
\* only of an index of two or more items
RootIds == {1, 2}

\* temp_trait::Crate / rustdoc_types::Crate, the fields the library reads
Crates(n) ==
  { [root |-> r, crate_version |-> v, index |-> ix] :
      r \in RootIds, v \in CrateVersions, ix \in Indexes(n) }

NoCrate == [root |-> 0, crate_version |-> None, index |-> <<>>]

\* CommonCrates
root_id(c) == c.root
crate_version(c) == UnwrapOr(c.crate_version, "latest")
index(c) == c.index

\* every enumeration of a finite set, as sequences: HashMap iteration orders
Orders(S) ==
  { o \in [1..Cardinality(S) -> S] : \A i, j \in 1..Cardinality(S) : o[i] = o[j] => i = j }

\* ------------------------------------------------------------- CrateDocs
SessionItem(title, link) == [title |-> title, description |-> "", link |-> link]
FullSessionItem(content, link) == [content |-> content, link |-> link]

new(lib_name, version) ==
  [lib_name |-> lib_name, version |-> version, sessions |-> <<>>, full_sessions |-> <<>>]

NoDocs == new("", "")

\* ProcessItem without the visibility test: every documented item is emitted
ProcessItem_AnyVisibility(acc, item, base_url) ==
  IF acc.tag # "Ok" THEN acc
  ELSE IF item.docs = None THEN acc
  ELSE IF item.span = None THEN Panic
  ELSE LET filename == Unwrap(item.span).filename IN
       IF to_str(filename) = None THEN Panic
       ELSE LET link == base_url \o <<Unwrap(to_str(filename))>>
                title == IF IsSome(item.name) THEN Unwrap(item.name)
                         ELSE Unwrap(to_str(filename))
            IN Ok([acc.val EXCEPT
                     !.sessions = Append(@, SessionItem(title, link)),
                     !.full_sessions = Append(@, FullSessionItem(Unwrap(item.docs), link))])

\* ProcessItem whose session links to the source directory, not to the file
ProcessItem_SessionLinksBase(acc, item, base_url) ==
  IF acc.tag # "Ok" THEN acc
  ELSE IF item.docs = None THEN acc
  ELSE IF item.visibility # "Public" THEN acc
  ELSE IF item.span = None THEN Panic
  ELSE LET filename == Unwrap(item.span).filename IN
       IF to_str(filename) = None THEN Panic
       ELSE LET link == base_url \o <<Unwrap(to_str(filename))>>
                title == IF IsSome(item.name) THEN Unwrap(item.name)
                         ELSE Unwrap(to_str(filename))
            IN Ok([acc.val EXCEPT
                     !.sessions = Append(@, SessionItem(title, base_url)),
                     !.full_sessions = Append(@, FullSessionItem(Unwrap(item.docs), link))])

\* ProcessItem that keeps one entry per source file: an item whose file
\* already has a full session is skipped
ProcessItem_OnePerFile(acc, item, base_url) ==
  IF acc.tag # "Ok" THEN acc
  ELSE IF item.docs = None THEN acc
  ELSE IF item.visibility # "Public" THEN acc
  ELSE IF item.span = None THEN Panic
  ELSE LET filename == Unwrap(item.span).filename IN
       IF to_str(filename) = None THEN Panic
       ELSE LET link == base_url \o <<Unwrap(to_str(filename))>>
                title == IF IsSome(item.name) THEN Unwrap(item.name)
                         ELSE Unwrap(to_str(filename))
            IN IF \E i \in 1..Len(acc.val.full_sessions) :
                    acc.val.full_sessions[i].link = link
               THEN acc
               ELSE Ok([acc.val EXCEPT
                     !.sessions = Append(@, SessionItem(title, link)),
                     !.full_sessions = Append(@, FullSessionItem(Unwrap(item.docs), link))])

\* ProcessItem that titles every session with the file name
ProcessItem_TitleFromFile(acc, item, base_url) ==
  IF acc.tag # "Ok" THEN acc
  ELSE IF item.docs = None THEN acc
  ELSE IF item.visibility # "Public" THEN acc
  ELSE IF item.span = None THEN Panic
  ELSE LET filename == Unwrap(item.span).filename IN
       IF to_str(filename) = None THEN Panic
       ELSE LET link == base_url \o <<Unwrap(to_str(filename))>>
                title == Unwrap(to_str(filename))
            IN Ok([acc.val EXCEPT
                     !.sessions = Append(@, SessionItem(title, link)),
                     !.full_sessions = Append(@, FullSessionItem(Unwrap(item.docs), link))])

\* the body of the for loop of process_docs for one index entry;
\* acc is Ok(crate_docs) or Panic
ProcessItem(acc, item, base_url) ==
  IF acc.tag # "Ok" THEN acc
  ELSE IF item.docs = None THEN acc
  ELSE IF item.visibility # "Public" THEN acc
  ELSE IF item.span = None THEN Panic
  ELSE LET filename == Unwrap(item.span).filename IN
       IF to_str(filename) = None THEN Panic
       ELSE LET link == base_url \o <<Unwrap(to_str(filename))>>
                title == IF IsSome(item.name) THEN Unwrap(item.name)
                         ELSE Unwrap(to_str(filename))
            IN Ok([acc.val EXCEPT
                     !.sessions = Append(@, SessionItem(title, link)),
                     !.full_sessions = Append(@, FullSessionItem(Unwrap(item.docs), link))])

RECURSIVE ProcessLoop(_, _, _, _)
ProcessLoop(acc, ix, order, base_url) ==
  IF order = <<>> THEN acc
  ELSE ProcessLoop(ProcessItem(acc, ix[Head(order)], base_url), ix, Tail(order), base_url)

\* process_docs that pushes the crate entry after the loop instead of before it
process_docs_CrateEntryLast(lib_name, docs, version, order) ==
  LET v == IF version = None THEN crate_version(docs) ELSE Unwrap(version)
      base_url == DOCS_BASE_URL \o <<lib_name, v, "source">>
      first == SessionItem(lib_name, <<"https://docs.rs", lib_name, v>>)
      looped == ProcessLoop(Ok(new(lib_name, v)), index(docs), order, base_url)
  IN IF looped.tag # "Ok" THEN looped
     ELSE Ok([looped.val EXCEPT !.sessions = Append(@, first)])

\* CrateDocs::process_docs; order is the iteration order of docs.index()
process_docs(lib_name, docs, version, order) ==
  LET v == IF version = None THEN crate_version(docs) ELSE Unwrap(version)
      base_url == DOCS_BASE_URL \o <<lib_name, v, "source">>
      first == SessionItem(lib_name, <<"https://docs.rs", lib_name, v>>)
      start == [new(lib_name, v) EXCEPT !.sessions = <<first>>]
  IN ProcessLoop(Ok(start), index(docs), order, base_url)

\* ------------------------------------------------------ bytes on the wire
\* A JSON text, by what serde_json makes of it: wf = it is well-formed JSON
\* (serde_json::Value accepts it); std / internal = it deserializes into
\* rustdoc_types::Crate / temp_trait::Crate (the two differ in Item.attrs, so a
\* document can fit one, both or neither); crate = the data it then yields.
Text(wf, std, internal, c) == [wf |-> wf, std |-> std, internal |-> internal, crate |-> c]
Malformed == Text(FALSE, FALSE, FALSE, NoCrate)
Incompatible == Text(TRUE, FALSE, FALSE, NoCrate)
Texts(n) ==
  {Malformed, Incompatible}
    \cup { Text(TRUE, m[1], m[2], c) :
             m \in {<<TRUE, TRUE>>, <<TRUE, FALSE>>, <<FALSE, TRUE>>}, c \in Crates(n) }

\* A byte string: a zstd frame around a text, or the plain text itself.
Bytes(n) == [zstd : BOOLEAN, text : Texts(n)]

\* zstd::decode_all
decode_all(b) ==
  IF b.zstd THEN Ok([zstd |-> FALSE, text |-> b.text])
  ELSE Err("Io", <<"Unknown", "frame", "descriptor">>)

\* serde_json::from_slice::<T>, T one of "std" (rustdoc_types::Crate),
\* "internal" (temp_trait::Crate), "Value" (serde_json::Value)
from_slice(data, T) ==
  IF data.zstd \/ ~data.text.wf THEN Err("Json", <<"expected", "value">>)
  ELSE IF T = "Value" THEN Ok(NoCrate)
  ELSE IF T = "std" /\ data.text.std THEN Ok(data.text.crate)
  ELSE IF T = "internal" /\ data.text.internal THEN Ok(data.text.crate)
  ELSE Err("Json", <<"missing", "field">>)

\* str::eq_ignore_ascii_case, on the header values the model uses
to_ascii_lowercase(s) == IF s = "ZSTD" THEN "zstd" ELSE s
eq_ignore_ascii_case(a, b) == to_ascii_lowercase(a) = to_ascii_lowercase(b)

\* str::contains, on a message kept as its words
contains(msg, word) == \E i \in 1..Len(msg) : msg[i] = word

\* OnlineDocs::decompress_if_needed
decompress_if_needed(body_bytes, content_encoding) ==
  IF IsSome(content_encoding)
  THEN IF eq_ignore_ascii_case(Unwrap(content_encoding), "zstd")
       THEN decode_all(body_bytes)
       ELSE Ok(body_bytes)
  ELSE IF decode_all(body_bytes).tag = "Ok"
       THEN decode_all(body_bytes)
       ELSE Ok(body_bytes)

\* parse_json_with_fallback with the two error arms exchanged
parse_json_with_fallback_ArmsSwapped(data, T) ==
  LET direct == from_slice(data, T) IN
  IF direct.tag = "Ok" THEN direct
  ELSE IF from_slice(data, "Value").tag = "Ok"
       THEN Err("Json", direct.msg)
       ELSE Err("Config",
                <<"JSON", "structure", "incompatible", "with", "current",
                  "rustdoc-types", "version">> \o direct.msg)

\* OnlineDocs::parse_json_with_fallback
parse_json_with_fallback(data, T) ==
  LET direct == from_slice(data, T) IN
  IF direct.tag = "Ok" THEN direct
  ELSE IF from_slice(data, "Value").tag = "Ok"
       THEN Err("Config",
                <<"JSON", "structure", "incompatible", "with", "current",
                  "rustdoc-types", "version">> \o direct.msg)
       ELSE Err("Json", direct.msg)

\* ------------------------------------------------------------ HTTP exchange
ContentEncodings == {None, Some("zstd"), Some("ZSTD"), Some("gzip")}
StatusCodes == {"200", "404"}

\* What one run of the first lines of fetch_json meets: the client cannot be
\* built, send() fails, reading the body fails, or a response arrives.
Failure(stage) == [stage |-> stage]
Response(status, enc, body) ==
  [stage |-> "response", status |-> status, content_encoding |-> enc, body |-> body]
Exchanges(n) ==
  {Failure("build"), Failure("send"), Failure("bytes")}
    \cup { Response(st, e, b) : st \in StatusCodes, e \in ContentEncodings, b \in Bytes(n) }

\* the GET requests one run of fetch_json puts on the wire
Sent(url, x) == IF x.stage = "build" THEN <<>> ELSE <<url>>

\* OnlineDocs::fetch_json::<T>
fetch_json(x, T) ==
  IF x.stage # "response" THEN Err("Network", <<x.stage>>)
  ELSE LET decompressed_bytes == decompress_if_needed(x.body, x.content_encoding) IN
       IF decompressed_bytes.tag # "Ok" THEN decompressed_bytes
       ELSE parse_json_with_fallback(decompressed_bytes.val, T)

\* ------------------------------------------------- local generation (cargo)
\* rustdoc_json_stable::Builder as the gen_docs_* functions configure it
Builder(base, toolchain) ==
  [base |-> base, toolchain |-> toolchain, manifest_path |-> "", all_features |-> FALSE,
   no_default_features |-> FALSE, features |-> None, quiet |-> FALSE]
NoBuilder == Builder("", "")

\* What Builder::build() and the file system do for one run: cargo doc fails;
\* the file stem of the JSON path is not UTF-8; the file cannot be read; its
\* content is not a temp_trait::Crate; or a crate is read from <stem>.json.
Builds(n) ==
  { [stage |-> st, stem |-> "", crate |-> NoCrate] : st \in {"build", "stem", "read", "parse"} }
    \cup { [stage |-> "ok", stem |-> "crates_llms_txt", crate |-> c] : c \in Crates(n) }

\* the tail shared by the four gen_docs_* functions: build, file stem, read, parse
GenDocs(b) ==
  IF b.stage = "build" THEN Err("Build", <<"cargo", "doc", "failed">>)
  ELSE IF b.stage = "stem"
       THEN Err("Config", <<"Failed", "to", "extract", "library", "name",
                            "from", "generated", "JSON", "path">>)
  ELSE IF b.stage = "read" THEN Err("Io", <<"No", "such", "file", "or", "directory">>)
  ELSE IF b.stage = "parse" THEN Err("Json", <<"missing", "field">>)
  ELSE Ok([lib_name |-> b.stem, docs |-> b.crate])

\* gen_docs::gen_docs_with_all_features
gen_docs_with_all_features(toolchain, manifest_path) ==
  [Builder(IF toolchain = "nightly" THEN "default" ELSE "stable", toolchain)
     EXCEPT !.manifest_path = manifest_path, !.all_features = TRUE, !.quiet = TRUE]

\* gen_docs::gen_docs_with_all_features_auto_toolchain; nightly is
\* rustversion::cfg!(nightly) of the build
gen_docs_with_all_features_auto_toolchain(nightly, manifest_path) ==
  [(IF nightly THEN Builder("default", "nightly") ELSE Builder("stable", "stable"))
     EXCEPT !.manifest_path = manifest_path, !.all_features = TRUE, !.quiet = TRUE]

\* WithFeatures that sets the feature list but never no-default-features
WithFeatures_KeepsDefaultFeatures(b, no_default_features, features) ==
  [b EXCEPT !.features = IF IsSome(features) THEN features ELSE @]

\* the two `if`s of gen_docs_with_features*
WithFeatures(b, no_default_features, features) ==
  [b EXCEPT !.no_default_features = IF no_default_features THEN TRUE ELSE @,
            !.features = IF IsSome(features) THEN features ELSE @]

\* gen_docs::gen_docs_with_features
gen_docs_with_features(toolchain, manifest_path, no_default_features, features) ==
  WithFeatures([Builder(IF toolchain = "nightly" THEN "default" ELSE "stable", toolchain)
                  EXCEPT !.manifest_path = manifest_path, !.quiet = TRUE],
               no_default_features, features)

\* gen_docs::gen_docs_with_features_auto_toolchain
gen_docs_with_features_auto_toolchain(nightly, manifest_path, no_default_features, features) ==
  WithFeatures([(IF nightly THEN Builder("default", "nightly") ELSE Builder("stable", "stable"))
                  EXCEPT !.manifest_path = manifest_path, !.quiet = TRUE],
               no_default_features, features)

\* -------------------------------------------------------------- NAPI layer
\* convert_crate_docs_to_llms_config that fills description from the title
\* and leaves out the last full session
convert_crate_docs_to_llms_config_Lossy(d) ==
  [lib_name |-> d.lib_name,
   version |-> d.version,
   sessions |-> [i \in 1..Len(d.sessions) |->
                   [title |-> d.sessions[i].title,
                    description |-> d.sessions[i].title,
                    link |-> d.sessions[i].link]],
   full_sessions |-> [i \in 1..(IF Len(d.full_sessions) = 0 THEN 0
                                ELSE Len(d.full_sessions) - 1) |->
                        [content |-> d.full_sessions[i].content,
                         link |-> d.full_sessions[i].link]]]

\* napi::convert_crate_docs_to_llms_config
convert_crate_docs_to_llms_config(d) ==
  [lib_name |-> d.lib_name,
   version |-> d.version,
   sessions |-> [i \in 1..Len(d.sessions) |->
                   [title |-> d.sessions[i].title,
                    description |-> d.sessions[i].description,
                    link |-> d.sessions[i].link]],
   full_sessions |-> [i \in 1..Len(d.full_sessions) |->
                        [content |-> d.full_sessions[i].content,
                         link |-> d.full_sessions[i].link]]]

NotCalled == [tag |-> "not-called"]
JsNull == [tag |-> "None"]

\* the `match` every NAPI binding ends in; a panic of the callee unwinds
\* through the binding, which has no catch_unwind
NapiMatch(r) ==
  IF r.tag = "Ok" THEN [tag |-> "Some", val |-> convert_crate_docs_to_llms_config(r.val)]
  ELSE IF r.tag = "Err" THEN JsNull
  ELSE Panic

\* what JavaScript gets back: bindings is the chain of NAPI functions the call
\* came through (empty for a direct Rust call)
NapiReturn(bindings, r) == IF bindings = <<>> THEN NotCalled ELSE NapiMatch(r)

\* ------------------------------------------------- the two crate formats
\* the largest index the two formats are compared on
MaxViewItems == 2

\* rustdoc_types::Attribute values, and the attribute lists of an item
Attributes == {"NonExhaustive", "Other"}
AttributeLists == {<<>>, <<"NonExhaustive", "Other">>}

\* serde_json::to_string(attr); it does not fail on an Attribute
to_string(attr) ==
  IF attr = "NonExhaustive" THEN Some("\"non_exhaustive\"")
  ELSE Some("{\"other\":\"#[inline]\"}")

\* the attrs of a temp_trait::Item: strings
AttrStringLists == {<<>>, <<"#[non_exhaustive]">>}

\* rustdoc_types::Item and temp_trait::Item with the id and the attrs, the
\* field the two formats differ in
ItemWithAttrs(id, item, attrs) ==
  [id |-> id, name |-> item.name, span |-> item.span,
   visibility |-> item.visibility, docs |-> item.docs, attrs |-> attrs]

\* the items the two formats are compared on: the public ones and a
\* crate-visible one
ViewItems == { it \in ItemPool : it.visibility \in {"Public", "Crate"} }

\* rustdoc_types::Crate values
RustdocCrates(n) ==
  { [root |-> r, crate_version |-> v,
     index |-> [id \in DOMAIN ix |-> ItemWithAttrs(id, ix[id], a)]] :
      r \in RootIds, v \in CrateVersions, a \in AttributeLists,
      ix \in UNION { [S -> ViewItems] : S \in SUBSET (1..n) } }

\* the temp_trait::Crate values that hold the data of the rustdoc_types::Crate
\* s: the same root, version and keys and, per key, the same id, name, span,
\* visibility and docs, with attrs in their own representation
SameDataCrates(s) ==
  { [root |-> s.root, crate_version |-> s.crate_version,
     index |-> [id \in DOMAIN s.index |->
                  [id |-> s.index[id].id, name |-> s.index[id].name,
                   span |-> s.index[id].span, visibility |-> s.index[id].visibility,
                   docs |-> s.index[id].docs, attrs |-> a]]] :
      a \in AttrStringLists }

\* attrs.iter().filter_map(|attr| to_string(attr).ok()).collect()
attrs_to_strings(attrs) ==
  LET kept == SelectSeq([i \in 1..Len(attrs) |-> to_string(attrs[i])], IsSome)
  IN [i \in 1..Len(kept) |-> Unwrap(kept[i])]

\* index() of rustdoc_types::Crate that leaves the docs of the items out
index_rustdoc_types_WithoutDocs(c) ==
  [id \in DOMAIN c.index |->
     LET item == c.index[id] IN
     [id |-> item.id, name |-> item.name, span |-> item.span,
      visibility |-> item.visibility, docs |-> None,
      attrs |-> attrs_to_strings(item.attrs)]]

\* <rustdoc_types::Crate as CommonCrates>::index: a new map with one converted
\* Item per entry, under the same key
index_rustdoc_types(c) ==
  [id \in DOMAIN c.index |->
     LET item == c.index[id] IN
     [id |-> item.id, name |-> item.name, span |-> item.span,
      visibility |-> item.visibility, docs |-> item.docs,
      attrs |-> attrs_to_strings(item.attrs)]]

\* <temp_trait::Crate as CommonCrates>::index: a clone
index_temp_trait(c) == c.index

\* a crate of either format as process_docs<T: CommonCrates> sees it
CommonCrates(fmt, c) ==
  [root |-> c.root, crate_version |-> c.crate_version,
   index |-> IF fmt = "std" THEN index_rustdoc_types(c) ELSE index_temp_trait(c)]

\* what a caller gets through the trait, and from process_docs over it
View(fmt, c, lib_name, order) ==
  [root_id |-> root_id(CommonCrates(fmt, c)),
   crate_version |-> crate_version(CommonCrates(fmt, c)),
   index |-> index(CommonCrates(fmt, c)),
   docs |-> process_docs(lib_name, CommonCrates(fmt, c), None, order)]

\* -------------------------------------------------------------- WASM layer
\* the keys llms_config_to_js_object sets, in the order of its Reflect::set calls
JsKeys == <<"lib_name", "version", "sessions", "full_sessions">>

\* LLMsStandardStringConfig as the conversion reads it: four strings
StandardStringConfig(lib_name, version) ==
  [lib_name |-> lib_name, version |-> version,
   sessions |-> "[sessions]", full_sessions |-> "[full_sessions]"]

\* what a LLMsStandardConfig::get_llms_config_* call hands to its binding:
\* a config for the crate, or an error
StandardConfigResults(lib_name) ==
  { Ok(StandardStringConfig(lib_name, v)) : v \in {"latest", "2.0.0"} }
    \cup { Err("Boxed", <<"failed">>) }

\* what one Reflect::set(&obj, key, value) can do in the host: define the
\* property (Ok(true)); leave it undefined because an inherited property of
\* that name is read-only (Ok(false)); or run an inherited setter that throws
\* a string, or a value that is not a string (Err(e))
ReflectOutcomes == {"set", "refused", "throws-string", "throws-object"}
ReflectRuns == [1..Len(JsKeys) -> ReflectOutcomes]

JsUndefined == [type |-> "undefined"]
JsObject(props) == [type |-> "object", props |-> props]
Resolved(v) == [tag |-> "resolved", val |-> v]

\* wasm::llms_config_to_js_object; reflect[i] is the outcome of the i-th
\* Reflect::set. `?` returns the JsError made from a thrown string;
\* e.as_string().unwrap() panics on a thrown value that is not a string; the
\* bool of Ok is dropped
llms_config_to_js_object(config, reflect) ==
  LET thrown == {i \in 1..Len(JsKeys) : reflect[i] \in {"throws-string", "throws-object"}}
      defined == {i \in 1..Len(JsKeys) : reflect[i] = "set"}
  IN IF thrown = {}
     THEN Ok(JsObject([k \in {JsKeys[i] : i \in defined} |-> config[k]]))
     ELSE LET i == CHOOSE i \in thrown : \A j \in thrown : i <= j IN
          IF reflect[i] = "throws-string"
          THEN Err("JsError", <<"thrown">>)
          ELSE Panic

\* the nested `match` every WASM binding consists of
WasmMatch(r, reflect) ==
  IF r.tag = "Ok"
  THEN LET o == llms_config_to_js_object(r.val, reflect) IN
       IF o.tag = "Ok" THEN Resolved(o.val)
       ELSE IF o.tag = "Err" THEN Resolved(JsUndefined)
       ELSE Panic
  ELSE Resolved(JsUndefined)

\* ------------------------------------------------------------------- state
VARIABLES
  pc,        \* "idle", "fetch_std", "fetch_internal" (the two awaits of an online call), "done"
  call,      \* the function called and its arguments
  requests,  \* the URLs of the HTTP GETs the current call has sent, in order
  attempts,  \* the fetch_json runs of the current call, in order: format T and outcome r
  parsed,    \* the format and the crate data handed to process_docs
  builder,   \* the rustdoc builder configuration the current call ran
  result,    \* what the called function returned
  js         \* what the NAPI or WASM binding returned to JavaScript

vars == <<pc, call, requests, attempts, parsed, builder, result, js>>

NoCall == [fn |-> "none", bindings |-> <<>>]
NoParsed == [fmt |-> "none", crate |-> NoCrate]
NoResult == [tag |-> "none"]

\* the arguments the model calls the entry points with
LibNames == {"clap", "serde"}
VersionArgs == {None, Some("latest"), Some("2.0.0"), Some("1")}
Urls == { DOCS_BASE_URL \o <<"clap", "latest", "json">>,
          <<"https://my-docs.example.com", "crate", "my-crate", "1.0.0", "json">> }
ManifestPaths == {"./Cargo.toml"}
Toolchains == {None, Some("stable"), Some("nightly")}
FeatureArgs == {None, Some(<<>>), Some(<<"rustdoc">>)}

Init ==
  /\ pc = "idle"
  /\ call = NoCall
  /\ requests = <<>>
  /\ attempts = <<>>
  /\ parsed = NoParsed
  /\ builder = NoBuilder
  /\ result = NoResult
  /\ js = NotCalled

\* --------------------------------------------------------- online entry points
\* CrateDocs::from_online up to its first await
StartOnline(bindings, lib_name, version) ==
  /\ pc = "idle"
  /\ call' = [fn |-> "from_online", bindings |-> bindings,
              lib_name |-> lib_name, version |-> version,
              url |-> DOCS_BASE_URL \o <<lib_name, UnwrapOr(version, "latest"), "json">>]
  /\ pc' = "fetch_std"
  /\ UNCHANGED <<requests, attempts, parsed, builder, result, js>>

\* CrateDocs::from_url up to its first await
StartUrl(bindings, url) ==
  /\ pc = "idle"
  /\ call' = [fn |-> "from_url", bindings |-> bindings, url |-> url]
  /\ pc' = "fetch_std"
  /\ UNCHANGED <<requests, attempts, parsed, builder, result, js>>

\* Transform that hands from_online's requested version string to process_docs
Transform_RequestedVersion(c, docs, order) ==
  IF c.fn = "from_online"
  THEN process_docs(c.lib_name, docs, Some(UnwrapOr(c.version, "latest")), order)
  ELSE IF root_id(docs) \in DOMAIN index(docs)
       THEN process_docs(UnwrapOr(index(docs)[root_id(docs)].name, "unknown"),
                         docs, Some(crate_version(docs)), order)
       ELSE Err("Config", <<"Failed", "to", "extract", "crate", "name",
                            "from", "root", "item">>)

\* Transform whose from_url goes on as "unknown" when the root item is missing
Transform_UnknownWithoutRoot(c, docs, order) ==
  IF c.fn = "from_online"
  THEN process_docs(c.lib_name, docs, Some(crate_version(docs)), order)
  ELSE process_docs(IF root_id(docs) \in DOMAIN index(docs)
                    THEN UnwrapOr(index(docs)[root_id(docs)].name, "unknown")
                    ELSE "unknown",
                    docs, Some(crate_version(docs)), order)

\* the Ok arm of from_online / from_url: what is made of the parsed crate
Transform(c, docs, order) ==
  IF c.fn = "from_online"
  THEN process_docs(c.lib_name, docs, Some(crate_version(docs)), order)
  ELSE IF root_id(docs) \in DOMAIN index(docs)
       THEN process_docs(UnwrapOr(index(docs)[root_id(docs)].name, "unknown"),
                         docs, Some(crate_version(docs)), order)
       ELSE Err("Config", <<"Failed", "to", "extract", "crate", "name",
                            "from", "root", "item">>)

\* AfterStd that runs the fallback whatever the first fetch_json returned
AfterStd_AlwaysFallBack(r) == "fetch_internal"

\* the arm of the outer match an online call takes after the standard-format
\* fetch_json returned r: "done" (Ok arm) or "fetch_internal" (Err arm)
AfterStd(r) == IF r.tag = "Ok" THEN "done" ELSE "fetch_internal"

\* what one fetch_json::<rustdoc_types::Crate> of an entry point can come to:
\* how far the exchange got and what the function returned
StdFetches ==
  { [stage |-> x.stage, r |-> fetch_json(x, "std")] : x \in Exchanges(MaxFetchedItems) }

\* the same for fetch_json::<temp_trait::Crate>
InternalFetches ==
  { [stage |-> x.stage, r |-> fetch_json(x, "internal")] : x \in Exchanges(MaxFetchedItems) }

\* first fetch_json::<rustdoc_types::Crate>(url).await and the outer match
FetchStd ==
  /\ pc = "fetch_std"
  /\ \E x \in StdFetches :
       LET r == x.r IN
       /\ requests' = requests \o Sent(call.url, x)
       /\ attempts' = Append(attempts, [T |-> "std", r |-> r])
       /\ pc' = AfterStd(r)
       /\ IF AfterStd(r) = "done"
          THEN \E order \in Orders(DOMAIN index(r.val)) :
                 LET res == Transform(call, r.val, order) IN
                 /\ parsed' = [fmt |-> "std", crate |-> r.val]
                 /\ result' = res
                 /\ js' = NapiReturn(call.bindings, res)
          ELSE UNCHANGED <<parsed, result, js>>
  /\ UNCHANGED <<call, builder>>

\* fallback fetch_json::<temp_trait::Crate>(url).await and the inner match
FetchInternal ==
  /\ pc = "fetch_internal"
  /\ \E x \in InternalFetches :
       LET r == x.r IN
       /\ requests' = requests \o Sent(call.url, x)
       /\ attempts' = Append(attempts, [T |-> "internal", r |-> r])
       /\ pc' = "done"
       /\ IF r.tag = "Ok"
          THEN \E order \in Orders(DOMAIN index(r.val)) :
                 LET res == Transform(call, r.val, order) IN
                 /\ parsed' = [fmt |-> "internal", crate |-> r.val]
                 /\ result' = res
                 /\ js' = NapiReturn(call.bindings, res)
          ELSE /\ result' = r
               /\ js' = NapiReturn(call.bindings, r)
               /\ UNCHANGED parsed
  /\ UNCHANGED <<call, builder>>

\* CrateDocs::from_online, called from Rust
FromOnline == \E l \in LibNames, v \in VersionArgs : StartOnline(<<>>, l, v)

\* CrateDocs::from_url, called from Rust
FromUrl == \E u \in Urls : StartUrl(<<>>, u)

\* napi from_crate_name
NapiFromCrateName ==
  \E l \in LibNames, v \in VersionArgs : StartOnline(<<"from_crate_name">>, l, v)

\* napi from_url
NapiFromUrl == \E u \in Urls : StartUrl(<<"from_url">>, u)

\* napi from_online: Either::A goes to from_crate_name, Either::B to from_url
NapiFromOnline ==
  \/ \E l \in LibNames, v \in VersionArgs :
       StartOnline(<<"from_online", "from_crate_name">>, l, v)
  \/ \E u \in Urls : StartUrl(<<"from_online", "from_url">>, u)

\* ---------------------------------------------------------- local entry points
\* the tail of from_local / from_local_with_features: `?` on the gen_docs result,
\* then process_docs(&lib_name, docs, None)
RunLocal(c, cfg) ==
  /\ pc = "idle"
  /\ call' = c
  /\ builder' = cfg
  /\ pc' = "done"
  /\ \E b \in Builds(MaxFetchedItems) :
       LET g == GenDocs(b) IN
       IF g.tag = "Ok"
       THEN \E order \in Orders(DOMAIN index(g.val.docs)) :
              LET res == process_docs(g.val.lib_name, g.val.docs, None, order) IN
              /\ parsed' = [fmt |-> "internal", crate |-> g.val.docs]
              /\ result' = res
              /\ js' = NapiReturn(c.bindings, res)
       ELSE /\ result' = g
            /\ js' = NapiReturn(c.bindings, g)
            /\ UNCHANGED parsed
  /\ UNCHANGED <<requests, attempts>>

\* CrateDocs::from_local
from_local(bindings, manifest_path, toolchain) ==
  \E nightly \in (IF toolchain = None THEN BOOLEAN ELSE {FALSE}) :
    RunLocal([fn |-> "from_local", bindings |-> bindings,
              manifest_path |-> manifest_path, toolchain |-> toolchain],
             IF IsSome(toolchain)
             THEN gen_docs_with_all_features(Unwrap(toolchain), manifest_path)
             ELSE gen_docs_with_all_features_auto_toolchain(nightly, manifest_path))

\* CrateDocs::from_local_with_features
from_local_with_features(bindings, manifest_path, no_default_features, features, toolchain) ==
  \E nightly \in (IF toolchain = None THEN BOOLEAN ELSE {FALSE}) :
    RunLocal([fn |-> "from_local_with_features", bindings |-> bindings,
              manifest_path |-> manifest_path, toolchain |-> toolchain,
              no_default_features |-> no_default_features, features |-> features],
             IF IsSome(toolchain)
             THEN gen_docs_with_features(Unwrap(toolchain), manifest_path,
                                         no_default_features, features)
             ELSE gen_docs_with_features_auto_toolchain(nightly, manifest_path,
                                                        no_default_features, features))

\* CrateDocs::from_local, called from Rust
FromLocal == \E m \in ManifestPaths, t \in Toolchains : from_local(<<>>, m, t)

\* CrateDocs::from_local_with_features, called from Rust
FromLocalWithFeatures ==
  \E m \in ManifestPaths, n \in BOOLEAN, f \in FeatureArgs, t \in Toolchains :
    from_local_with_features(<<>>, m, n, f, t)

\* napi from_local
NapiFromLocal ==
  \E m \in ManifestPaths, t \in Toolchains : from_local(<<"from_local">>, m, t)

\* napi from_local_with_features
NapiFromLocalWithFeatures ==
  \E m \in ManifestPaths, n \in BOOLEAN, f \in FeatureArgs, t \in Toolchains :
    from_local_with_features(<<"from_local_with_features">>, m, n, f, t)

\* napi from_local_by_rustdoc: Either::A goes to from_local, Either::B to
\* from_local_with_features
NapiFromLocalByRustdoc ==
  \/ \E m \in ManifestPaths, t \in Toolchains :
       from_local(<<"from_local_by_rustdoc", "from_local">>, m, t)
  \/ \E m \in ManifestPaths, n \in BOOLEAN, f \in FeatureArgs, t \in Toolchains :
       from_local_with_features(<<"from_local_by_rustdoc", "from_local_with_features">>,
                                m, n, f, t)

\* ------------------------------------------------- the functions on their own
\* CrateDocs::process_docs applied to a crate (it never reads the root id)
ProcessDocs ==
  /\ pc = "idle"
  /\ \E l \in {"clap"}, v \in {None, Some("1")},
        d \in {c \in Crates(MaxItems) : root_id(c) = 1} :
       \E order \in Orders(DOMAIN index(d)) :
         /\ call' = [fn |-> "process_docs", bindings |-> <<>>, lib_name |-> l, version |-> v]
         /\ parsed' = [fmt |-> "internal", crate |-> d]
         /\ result' = process_docs(l, d, v, order)
  /\ pc' = "done"
  /\ UNCHANGED <<requests, attempts, builder, js>>

\* OnlineDocs::decompress_if_needed applied to a body and a header value
DecompressIfNeeded ==
  /\ pc = "idle"
  /\ \E b \in Bytes(MaxFetchedItems), e \in ContentEncodings :
       /\ call' = [fn |-> "decompress_if_needed", bindings |-> <<>>,
                   body_bytes |-> b, content_encoding |-> e]
       /\ result' = decompress_if_needed(b, e)
  /\ pc' = "done"
  /\ UNCHANGED <<requests, attempts, parsed, builder, js>>

\* OnlineDocs::parse_json_with_fallback::<T> applied to a byte string
ParseJsonWithFallback ==
  /\ pc = "idle"
  /\ \E d \in Bytes(MaxFetchedItems), T \in {"std", "internal"} :
       /\ call' = [fn |-> "parse_json_with_fallback", bindings |-> <<>>, data |-> d, T |-> T]
       /\ result' = parse_json_with_fallback(d, T)
  /\ pc' = "done"
  /\ UNCHANGED <<requests, attempts, parsed, builder, js>>

\* OnlineDocs::fetch_json::<T>, called from Rust
FetchJson ==
  /\ pc = "idle"
  /\ \E u \in Urls, T \in {"std", "internal"}, x \in Exchanges(MaxFetchedItems) :
       /\ call' = [fn |-> "fetch_json", bindings |-> <<>>, url |-> u, T |-> T, exchange |-> x]
       /\ requests' = Sent(u, x)
       /\ attempts' = <<[T |-> T, r |-> fetch_json(x, T)]>>
       /\ result' = fetch_json(x, T)
  /\ pc' = "done"
  /\ UNCHANGED <<parsed, builder, js>>

\* ------------------------------------------------------- CommonCrates shim
\* the same data read through the trait in both formats, each with the
\* iteration order of its own map
CommonCratesViews ==
  /\ pc = "idle"
  /\ pc' = "done"
  /\ \E s \in RustdocCrates(MaxViewItems) :
       \E t \in SameDataCrates(s), o1 \in Orders(DOMAIN s.index), o2 \in Orders(DOMAIN s.index) :
         /\ call' = [fn |-> "CommonCrates", bindings |-> <<>>, lib_name |-> "clap",
                     std |-> s, internal |-> t]
         /\ result' = [tag |-> "views",
                       std |-> View("std", s, "clap", o1),
                       internal |-> View("internal", t, "clap", o2)]
  /\ UNCHANGED <<requests, attempts, parsed, builder, js>>

\* ---------------------------------------------------------- WASM bindings
\* one run of a WASM binding: the LLMsStandardConfig call, then the match
WasmBinding(c, lib_name) ==
  /\ pc = "idle"
  /\ pc' = "done"
  /\ \E r \in StandardConfigResults(lib_name), reflect \in ReflectRuns :
       /\ call' = [c EXCEPT !.reflect = reflect]
       /\ result' = r
       /\ js' = WasmMatch(r, reflect)
  /\ UNCHANGED <<requests, attempts, parsed, builder>>

\* wasm get_llms_config_online
GetLlmsConfigOnline ==
  \E l \in LibNames, v \in VersionArgs :
    WasmBinding([fn |-> "get_llms_config_online", bindings |-> <<>>, reflect |-> <<>>,
                 lib_name |-> l, version |-> v], l)

\* wasm get_llms_config_by_rustdoc_all_features
GetLlmsConfigByRustdocAllFeatures ==
  \E t \in {"stable", "nightly"}, m \in ManifestPaths :
    WasmBinding([fn |-> "get_llms_config_by_rustdoc_all_features", bindings |-> <<>>,
                 reflect |-> <<>>, toolchain |-> t, manifest_path |-> m],
                "crates_llms_txt")

\* wasm get_llms_config_by_rustdoc_features
GetLlmsConfigByRustdocFeatures ==
  \E t \in {"stable", "nightly"}, m \in ManifestPaths, n \in BOOLEAN, f \in FeatureArgs :
    WasmBinding([fn |-> "get_llms_config_by_rustdoc_features", bindings |-> <<>>,
                 reflect |-> <<>>, toolchain |-> t, manifest_path |-> m,
                 no_default_features |-> n, features |-> f],
                "crates_llms_txt")

\* the caller has its result; nothing is kept for the next call
Return ==
  /\ pc = "done"
  /\ pc' = "idle"
  /\ call' = NoCall
  /\ requests' = <<>>
  /\ attempts' = <<>>
  /\ parsed' = NoParsed
  /\ builder' = NoBuilder
  /\ result' = NoResult
  /\ js' = NotCalled

Next ==
  \/ FromOnline
  \/ FromUrl
  \/ FetchStd
  \/ FetchInternal
  \/ FromLocal
  \/ FromLocalWithFeatures
  \/ NapiFromCrateName
  \/ NapiFromUrl
  \/ NapiFromOnline
  \/ NapiFromLocal
  \/ NapiFromLocalWithFeatures
  \/ NapiFromLocalByRustdoc
  \/ ProcessDocs
  \/ DecompressIfNeeded
  \/ ParseJsonWithFallback
  \/ FetchJson
  \/ CommonCratesViews
  \/ GetLlmsConfigOnline
  \/ GetLlmsConfigByRustdocAllFeatures
  \/ GetLlmsConfigByRustdocFeatures
  \/ Return

Spec == Init /\ [][Next]_vars

\* ================================================================== claims
\* the functions that return a CrateDocs built by process_docs
Flatteners ==
  {"process_docs", "from_online", "from_url", "from_local", "from_local_with_features"}
EntryPoints == {"from_online", "from_url", "from_local", "from_local_with_features"}
OnlineEntryPoints == {"from_online", "from_url"}

\* the call returned Ok(crate_docs)
Returned == call.fn \in Flatteners /\ result.tag = "Ok"

\* the index entries process_docs is to emit
Included(item) == IsSome(item.docs) /\ item.visibility = "Public"
IncludedIds(ix) == { id \in DOMAIN ix : Included(ix[id]) }

\* C1: process_docs emits one session and one full session for each index item
\* that has docs and is Public, and nothing for any other item: the full
\* sessions are as many as those items, and each (content, source file) pair
\* occurs among the full sessions as often as among those items, so items
\* sharing a file are neither merged nor dropped and no other item contributes.
C1_ExactlyPublicDocumented ==
  Returned =>
    LET ix == parsed.crate.index
        inc == IncludedIds(ix)
        full == result.val.full_sessions
        ItemKey(id) == <<Unwrap(ix[id].docs), Unwrap(ix[id].span).filename.s>>
        FullKey(i) == <<full[i].content, full[i].link[Len(full[i].link)]>>
        keys == {ItemKey(id) : id \in inc} \cup {FullKey(i) : i \in 1..Len(full)}
    IN /\ Len(full) = Cardinality(inc)
       /\ Len(result.val.sessions) = Cardinality(inc) + 1
       /\ \A k \in keys :
            Cardinality({i \in 1..Len(full) : FullKey(i) = k})
              = Cardinality({id \in inc : ItemKey(id) = k})

\* C1 witness: process_docs returned for an index of two public documented
\* items in the same source file and one documented non-public item
C1_Witness ==
  /\ Returned
  /\ call.fn = "process_docs"
  /\ LET ix == parsed.crate.index IN
     /\ Cardinality(DOMAIN ix) = 3
     /\ Cardinality(IncludedIds(ix)) = 2
     /\ \A a, b \in IncludedIds(ix) : ix[a].span = ix[b].span
     /\ \E c \in DOMAIN ix : IsSome(ix[c].docs) /\ ix[c].visibility # "Public"
  /\ Len(result.val.full_sessions) = 2

\* C2: in a returned CrateDocs, sessions is full_sessions shifted by the
\* leading crate entry: one element longer, and sessions[i+1] and
\* full_sessions[i] carry the same link.
C2_ParallelLists ==
  Returned =>
    /\ Len(result.val.sessions) = Len(result.val.full_sessions) + 1
    /\ \A i \in 1..Len(result.val.full_sessions) :
         result.val.sessions[i + 1].link = result.val.full_sessions[i].link

\* C2 witness: a returned CrateDocs with two full sessions of different links
C2_Witness ==
  /\ Returned
  /\ Len(result.val.full_sessions) = 2
  /\ result.val.full_sessions[1].link # result.val.full_sessions[2].link

\* C3: a call of from_online or from_url sends at most one HTTP request and
\* never retries.
C3_AtMostOneRequest ==
  call.fn \in OnlineEntryPoints => Len(requests) <= 1

\* C4 as stated: a successful from_online(lib_name, Some(v)) returns version v.
C4_VersionIsRequested ==
  (call.fn = "from_online" /\ result.tag = "Ok" /\ IsSome(call.version))
    => result.val.version = Unwrap(call.version)

\* C4 as amended: a successful from_online(lib_name, Some(v)) returns the
\* crate_version recorded in the fetched rustdoc JSON, "latest" when it records
\* none, whatever v was.
C4_VersionIsServed ==
  (call.fn = "from_online" /\ result.tag = "Ok" /\ IsSome(call.version))
    => result.val.version
         = (IF parsed.crate.crate_version = None THEN "latest"
            ELSE parsed.crate.crate_version[1])

\* C4 witness: from_online asked for "latest" and returned the served 2.0.0
C4_Witness ==
  /\ call.fn = "from_online"
  /\ result.tag = "Ok"
  /\ call.version = Some("latest")
  /\ parsed.crate.crate_version = Some("2.0.0")
  /\ result.val.version = "2.0.0"

\* C5: every successful entry-point result starts with the crate entry
\* (title lib_name, empty description, link https://docs.rs/{lib_name}/{version}),
\* and from_online keeps the lib_name it was given.
C5_CrateEntryFirst ==
  (call.fn \in EntryPoints /\ result.tag = "Ok") =>
    /\ Len(result.val.sessions) >= 1
    /\ result.val.sessions[1]
         = [title |-> result.val.lib_name,
            description |-> "",
            link |-> <<"https://docs.rs", result.val.lib_name, result.val.version>>]
    /\ call.fn = "from_online" => result.val.lib_name = call.lib_name

\* C5 witness: a successful from_online whose result also has an item session
C5_Witness ==
  /\ call.fn = "from_online"
  /\ result.tag = "Ok"
  /\ Len(result.val.sessions) = 2
  /\ result.val.sessions[1].title = call.lib_name

\* a public documented item process_docs cannot build a link for
Unlinkable(item) ==
  /\ Included(item)
  /\ \/ item.span = None
     \/ to_str(Unwrap(item.span).filename) = None

\* C6: for an index with a public documented item whose span is None or whose
\* file name is not UTF-8, process_docs returns Err; it does not panic.
C6_ErrNotPanic ==
  (call.fn = "process_docs" /\ pc = "done"
     /\ \E id \in DOMAIN parsed.crate.index : Unlinkable(parsed.crate.index[id]))
    => result.tag = "Err"

\* C7: a NAPI binding returns a non-null LLMsConfig exactly when the CrateDocs
\* call returned Ok, and null for every failure of that call.
C7_NullOnFailure ==
  (call.bindings # <<>> /\ pc = "done") =>
    /\ js.tag = "Some" <=> result.tag = "Ok"
    /\ result.tag # "Ok" => js = JsNull

\* C8: from_online and from_url run the standard format first and the internal
\* format only after the standard attempt failed: a fallback is pending or done
\* only behind a failed standard attempt, and after a successful standard
\* attempt the call is finished with the data of that attempt.
C8_StandardFirst ==
  call.fn \in OnlineEntryPoints =>
    /\ Len(attempts) <= 2
    /\ Len(attempts) >= 1 => attempts[1].T = "std"
    /\ Len(attempts) = 2 => attempts[2].T = "internal"
    /\ (pc = "fetch_internal" \/ Len(attempts) = 2) => attempts[1].r.tag # "Ok"
    /\ (Len(attempts) >= 1 /\ attempts[1].r.tag = "Ok") =>
         /\ pc = "done"
         /\ parsed = [fmt |-> "std", crate |-> attempts[1].r.val]

\* C8 witness: from_url finished on a successful standard-format attempt
C8_Witness ==
  /\ call.fn = "from_url"
  /\ pc = "done"
  /\ Len(attempts) = 1
  /\ attempts[1].r.tag = "Ok"
  /\ result.tag = "Ok"

\* C9: parse_json_with_fallback is Ok(value) exactly for bytes that
\* deserialize into T, Error::Json exactly for bytes that are not well-formed
\* JSON, and Error::Config with a message containing "incompatible" exactly for
\* well-formed JSON that does not fit T.
C9_Classification ==
  call.fn = "parse_json_with_fallback" =>
    LET d == call.data
        wellformed == ~d.zstd /\ d.text.wf
        fits == wellformed /\ (IF call.T = "std" THEN d.text.std ELSE d.text.internal)
    IN /\ fits <=> result = Ok(d.text.crate)
       /\ ~wellformed <=> (result.tag = "Err" /\ result.kind = "Json")
       /\ (wellformed /\ ~fits) <=>
            (result.tag = "Err" /\ result.kind = "Config"
               /\ contains(result.msg, "incompatible"))

\* C9 witness: well-formed JSON of the other format was classified as Config
C9_Witness ==
  /\ call.fn = "parse_json_with_fallback"
  /\ call.T = "std"
  /\ ~call.data.zstd /\ call.data.text.wf /\ call.data.text.internal
  /\ result.tag = "Err" /\ result.kind = "Config"

\* C10: decompress_if_needed never fails: it returns Ok, and the body bytes
\* unchanged whenever they are not a zstd frame, whatever the header says.
C10_OriginalOnFailure ==
  call.fn = "decompress_if_needed" =>
    /\ result.tag = "Ok"
    /\ ~call.body_bytes.zstd => result.val = call.body_bytes

\* C11: fetch_json reports every failed HTTP request as Error::Network, a
\* response with an error status code included, and never decompresses or
\* parses the body of such a response.
C11_ErrorStatusIsNetwork ==
  (call.fn = "fetch_json"
     /\ (call.exchange.stage # "response" \/ call.exchange.status # "200"))
    => (result.tag = "Err" /\ result.kind = "Network")

\* C12: from_url names the crate after the index item of the root id
\* ("unknown" when that item has no name); when the root id has no entry in
\* the index it returns the Config error "Failed to extract crate name from
\* root item" and no CrateDocs.
C12_RootItemNamesCrate ==
  (call.fn = "from_url" /\ pc = "done" /\ parsed.fmt # "none") =>
    LET c == parsed.crate IN
    IF c.root \in DOMAIN c.index
    THEN /\ result.tag \in {"Ok", "panic"}
         /\ result.tag = "Ok" =>
              result.val.lib_name
                = (IF c.index[c.root].name = None THEN "unknown"
                   ELSE c.index[c.root].name[1])
    ELSE result = Err("Config", <<"Failed", "to", "extract", "crate", "name",
                                  "from", "root", "item">>)

\* C12 witness: from_url parsed a crate whose index has an item but none under
\* the root id, and returned the Config error
C12_Witness ==
  /\ call.fn = "from_url"
  /\ pc = "done"
  /\ parsed.fmt # "none"
  /\ parsed.crate.index # <<>>
  /\ parsed.crate.root \notin DOMAIN parsed.crate.index
  /\ result.tag = "Err" /\ result.kind = "Config"

\* C13: local generation hands the caller's feature configuration to the
\* builder unchanged: from_local enables all features on both toolchain paths;
\* from_local_with_features never enables all features, sets
\* no-default-features exactly when no_default_features is true and the
\* feature list exactly when features is Some, on both toolchain paths.
C13_FeaturesPassedThrough ==
  /\ call.fn = "from_local" =>
       /\ builder.all_features
       /\ ~builder.no_default_features
       /\ builder.features = None
  /\ call.fn = "from_local_with_features" =>
       /\ ~builder.all_features
       /\ builder.no_default_features = call.no_default_features
       /\ builder.features = call.features

\* C13 witness: from_local_with_features ran on the auto-detected toolchain
\* with no_default_features and a feature list
C13_Witness ==
  /\ call.fn = "from_local_with_features"
  /\ pc = "done"
  /\ call.toolchain = None
  /\ call.no_default_features
  /\ call.features = Some(<<"rustdoc">>)
  /\ builder.no_default_features
  /\ builder.features = Some(<<"rustdoc">>)

\* the multiset of the elements of a sequence
BagOfSeq(seq) ==
  [x \in {seq[i] : i \in 1..Len(seq)} |-> Cardinality({i \in 1..Len(seq) : seq[i] = x})]

\* two outcomes of process_docs that differ at most in the order of the entries
SameUpToOrder(r1, r2) ==
  /\ r1.tag = r2.tag
  /\ r1.tag = "Ok" =>
       /\ r1.val.lib_name = r2.val.lib_name
       /\ r1.val.version = r2.val.version
       /\ r1.val.sessions[1] = r2.val.sessions[1]
       /\ BagOfSeq([i \in 1..Len(r1.val.sessions) |->
                      <<r1.val.sessions[i].title, r1.val.sessions[i].link>>])
            = BagOfSeq([i \in 1..Len(r2.val.sessions) |->
                          <<r2.val.sessions[i].title, r2.val.sessions[i].link>>])
       /\ BagOfSeq([i \in 1..Len(r1.val.full_sessions) |->
                      <<r1.val.full_sessions[i].content, r1.val.full_sessions[i].link>>])
            = BagOfSeq([i \in 1..Len(r2.val.full_sessions) |->
                          <<r2.val.full_sessions[i].content, r2.val.full_sessions[i].link>>])

\* C14: the result of process_docs depends only on (lib_name, docs, version):
\* whatever a call returned, a run on the same arguments under any iteration
\* order of the index map, from any state, returns the same lib_name, version
\* and first session and the same multisets of (title, link) sessions and
\* (content, link) full sessions.
C14_SameArgumentsSameResult ==
  (call.fn = "process_docs" /\ pc = "done") =>
    \A order \in Orders(DOMAIN index(parsed.crate)) :
      SameUpToOrder(process_docs(call.lib_name, parsed.crate, call.version, order),
                    result)

\* C14 witness: process_docs returned for two included items of one source
\* file, in an order under which another iteration order gives another sequence
C14_Witness ==
  /\ call.fn = "process_docs"
  /\ pc = "done"
  /\ result.tag = "Ok"
  /\ \E i, j \in 1..Len(result.val.full_sessions) :
       /\ i < j
       /\ result.val.full_sessions[i].link = result.val.full_sessions[j].link
       /\ result.val.full_sessions[i].content # result.val.full_sessions[j].content
  /\ \E order \in Orders(DOMAIN index(parsed.crate)) :
       process_docs(call.lib_name, parsed.crate, call.version, order) # result

\* C15: the NAPI conversion loses nothing: the LLMsConfig handed to JavaScript
\* has the lib_name and version of the CrateDocs the library returned, and
\* sessions and full_sessions of the same length, in the same order, with
\* every field (title, description, link; content, link) unchanged.
C15_LosslessConversion ==
  js.tag = "Some" =>
    LET d == result.val
        c == js.val
    IN /\ result.tag = "Ok"
       /\ c.lib_name = d.lib_name
       /\ c.version = d.version
       /\ Len(c.sessions) = Len(d.sessions)
       /\ \A i \in 1..Len(d.sessions) :
            /\ c.sessions[i].title = d.sessions[i].title
            /\ c.sessions[i].description = d.sessions[i].description
            /\ c.sessions[i].link = d.sessions[i].link
       /\ Len(c.full_sessions) = Len(d.full_sessions)
       /\ \A i \in 1..Len(d.full_sessions) :
            /\ c.full_sessions[i].content = d.full_sessions[i].content
            /\ c.full_sessions[i].link = d.full_sessions[i].link

\* C15 witness: a NAPI binding converted a CrateDocs that has a full session
C15_Witness ==
  /\ js.tag = "Some"
  /\ call.bindings # <<>>
  /\ Len(result.val.full_sessions) >= 1
  /\ Len(js.val.sessions) = Len(js.val.full_sessions) + 1

WasmBindings ==
  {"get_llms_config_online", "get_llms_config_by_rustdoc_all_features",
   "get_llms_config_by_rustdoc_features"}

\* C16: every WASM binding resolves to a JavaScript object with the keys
\* lib_name, version, sessions and full_sessions when the underlying call and
\* the object conversion succeed, and to undefined when either of them fails;
\* it never returns the Err side of its Result.
C16_ObjectOrUndefined ==
  (call.fn \in WasmBindings /\ pc = "done") =>
    LET failed == \/ result.tag # "Ok"
                  \/ \E i \in 1..Len(JsKeys) :
                       call.reflect[i] \in {"throws-string", "throws-object"}
    IN /\ js.tag = "resolved"
       /\ IF failed
          THEN js.val = JsUndefined
          ELSE /\ js.val.type = "object"
               /\ DOMAIN js.val.props = {JsKeys[i] : i \in 1..Len(JsKeys)}

\* C17: read through CommonCrates, a rustdoc_types::Crate and a
\* temp_trait::Crate holding the same data have the same index keys and, per
\* key, the same id, name, span, visibility and docs; root_id() and
\* crate_version() agree; and process_docs gives the same sessions and full
\* sessions, as multisets, for both.
C17_UnifiedView ==
  (call.fn = "CommonCrates" /\ pc = "done") =>
    LET a == result.std
        b == result.internal
    IN /\ DOMAIN a.index = DOMAIN b.index
       /\ \A k \in DOMAIN a.index :
            /\ a.index[k].id = b.index[k].id
            /\ a.index[k].name = b.index[k].name
            /\ a.index[k].span = b.index[k].span
            /\ a.index[k].visibility = b.index[k].visibility
            /\ a.index[k].docs = b.index[k].docs
       /\ a.root_id = b.root_id
       /\ a.crate_version = b.crate_version
       /\ SameUpToOrder(a.docs, b.docs)

\* C17 witness: the two formats were read for a crate of two included items
\* whose attrs differ between the formats, the maps iterated in different
\* orders
C17_Witness ==
  /\ call.fn = "CommonCrates"
  /\ pc = "done"
  /\ result.std.index # result.internal.index
  /\ result.std.docs.tag = "Ok"
  /\ Len(result.std.docs.val.full_sessions) = 2
  /\ result.std.docs # result.internal.docs
  /\ \E k \in DOMAIN result.std.index : result.std.index[k].attrs # <<>>

\* C18: for every included index item the result holds, at matching
\* positions, a session whose title is the item's name, or the span's file
\* name when it has no name, whose description is empty and whose link is
\* https://docs.rs/crate/{lib_name}/{version}/source/{file name}, and a full
\* session with that link and the item's docs as content.
C18_EntryFields ==
  Returned =>
    LET ix == parsed.crate.index
        d == result.val
        file(id) == Unwrap(ix[id].span).filename.s
        link(id) == <<"https://docs.rs", "crate", d.lib_name, d.version, "source", file(id)>>
    IN \E order \in Orders(IncludedIds(ix)) :
         /\ Len(d.sessions) = Len(order) + 1
         /\ Len(d.full_sessions) = Len(order)
         /\ \A i \in 1..Len(order) :
              /\ d.sessions[i + 1].title
                   = (IF ix[order[i]].name = None THEN file(order[i])
                      ELSE ix[order[i]].name[1])
              /\ d.sessions[i + 1].description = ""
              /\ d.sessions[i + 1].link = link(order[i])
              /\ d.full_sessions[i].content = ix[order[i]].docs[1]
              /\ d.full_sessions[i].link = link(order[i])

\* C18 witness: process_docs returned for an index with a named and an
\* unnamed included item
C18_Witness ==
  /\ Returned
  /\ call.fn = "process_docs"
  /\ \E j, k \in IncludedIds(parsed.crate.index) :
       /\ parsed.crate.index[j].name = None
       /\ parsed.crate.index[k].name # None
  /\ Len(result.val.full_sessions) >= 2

====
